---- MODULE Spec2Model ----
(***************************************************************************)
(* Citation resolution pipeline of py/shared/utils/base_utils.py:          *)
(* bracket scanning, renumbering, and the two source mappers.              *)
(*                                                                         *)
(* A text is a sequence of one-character strings.  Offsets stored in       *)
(* citations are Python's 0-based offsets; At(t, i) reads t[i].            *)
(***************************************************************************)
EXTENDS Integers, Sequences, FiniteSets, TLC

\* ------------------------------------------------------------------ bounds
\* Longest input text, counted in tokens of TextTokens.
MaxTok == 3
\* Longest input text of the source-centred inputs, counted in bracket tokens.
MaxRefs == 2
\* Most results per category (chunk, graph, web, contextDoc) of an aggregate.
MaxPerCat == 1

\* ------------------------------------------------------------ characters
Digits == <<"0", "1", "2", "3", "4", "5", "6", "7", "8", "9">>

\* \d of the scan pattern
IsDigit(c) == \E i \in 1..10 : Digits[i] = c

DigitVal(c) == (CHOOSE i \in 1..10 : Digits[i] = c) - 1

\* str.isspace()
IsSpace(c) == c \in {" ", "\n", "\t"}

sentence_enders == {".", "?", "!"}

\* full_text[i], 0-based
At(t, i) == t[i + 1]

\* t[a:b], 0-based half-open, with Python's clamping of slice bounds
Slice(t, a, b) ==
    LET lo == IF a > Len(t) THEN Len(t) ELSE a
        hi == IF b > Len(t) THEN Len(t) ELSE b
    IN  IF hi <= lo THEN <<>> ELSE SubSeq(t, lo + 1, hi)

\* int(bracket_str): decimal value of a digit string
RECURSIVE IntOf(_)
IntOf(s) ==
    IF Len(s) = 0 THEN 0
    ELSE IntOf(SubSeq(s, 1, Len(s) - 1)) * 10 + DigitVal(s[Len(s)])

\* str(n) of a non-negative integer: its decimal digits
RECURSIVE StrOf(_)
StrOf(n) ==
    IF n < 10 THEN <<Digits[n + 1]>>
    ELSE StrOf(n \div 10) \o <<Digits[(n % 10) + 1]>>

\* The text "[n]"
Bracket(n) == <<"[">> \o StrOf(n) \o <<"]">>

\* ------------------------------------------------------ the scan pattern
\* First offset >= i that holds no digit (or len(t)).
RECURSIVE DigitsEnd(_, _)
DigitsEnd(t, i) ==
    IF i < Len(t) /\ IsDigit(At(t, i)) THEN DigitsEnd(t, i + 1) ELSE i

\* The pattern \[(\d+)\] tried at offset i: the match's end offset, or -1.
MatchAtMutEmpty(t, i) ==
    IF At(t, i) # "[" THEN -1
    ELSE LET j == DigitsEnd(t, i + 1)
         IN  IF j < Len(t) /\ At(t, j) = "]" THEN j + 1 ELSE -1

MatchAt(t, i) ==
    IF At(t, i) # "[" THEN -1
    ELSE LET j == DigitsEnd(t, i + 1)
         IN  IF j > i + 1 /\ j < Len(t) /\ At(t, j) = "]" THEN j + 1 ELSE -1

\* pattern.finditer(t) from offset pos: non-overlapping matches, left to right
RECURSIVE Finditer(_, _)
Finditer(t, pos) ==
    IF pos >= Len(t) THEN <<>>
    ELSE LET e == MatchAt(t, pos)
         IN  IF e # -1
             THEN <<[start |-> pos, end |-> e,
                     group1 |-> Slice(t, pos + 1, e - 1)]>> \o Finditer(t, e)
             ELSE Finditer(t, pos + 1)

\* ------------------------------------------------------- sentence spans
RECURSIVE SkipSpace(_, _)
SkipSpace(t, s) ==
    IF s < Len(t) /\ IsSpace(At(t, s)) THEN SkipSpace(t, s + 1) ELSE s

\* The backward loop stepping two offsets past the terminator it found.
RECURSIVE BackScanMutSkipTwo(_, _)
BackScanMutSkipTwo(t, s) ==
    IF s > 0
    THEN IF At(t, s) \in sentence_enders THEN SkipSpace(t, s + 2)
         ELSE BackScanMutSkipTwo(t, s - 1)
    ELSE s

\* the backward loop of _expand_citation_span_to_sentence
RECURSIVE BackScan(_, _)
BackScan(t, s) ==
    IF s > 0
    THEN IF At(t, s) \in sentence_enders THEN SkipSpace(t, s + 1)
         ELSE BackScan(t, s - 1)
    ELSE s

\* the forward loop of _expand_citation_span_to_sentence
RECURSIVE FwdScan(_, _)
FwdScan(t, e) ==
    IF e < Len(t)
    THEN IF At(t, e) \in sentence_enders THEN SkipSpace(t, e + 1)
         ELSE FwdScan(t, e + 1)
    ELSE e

expand_citation_span_to_sentence(full_text, start, end) ==
    <<BackScan(full_text, start), FwdScan(full_text, end)>>

\* ----------------------------------------------------------- citations
\* An unset integer field of a Citation (Python None); bracket numbers and
\* offsets are never negative.
NoneInt == -1

\* An unset string field of a Citation (Python None).
NoneStr == "None"

\* An unset object-valued field (Python None), and the values of source
\* attributes: <<conversion, attribute, object id>>.
NoneVal == <<"None", "", 0>>

AttrOf(obj, a) == <<"", a, obj.oid>>

\* str(x) of an attribute value
Str(v) == <<"str", v[2], v[3]>>

\* Citation(index=..., rawIndex=..., startIndex=..., ...): the other fields
\* keep their default.
Citation(index, rawIndex, startIndex, endIndex, snippetStart, snippetEnd) ==
    [index |-> index, rawIndex |-> rawIndex,
     startIndex |-> startIndex, endIndex |-> endIndex,
     snippetStartIndex |-> snippetStart, snippetEndIndex |-> snippetEnd,
     sourceType |-> NoneStr,
     id |-> NoneVal, document_id |-> NoneVal, owner_id |-> NoneVal,
     collection_ids |-> <<>>, score |-> NoneVal, text |-> NoneVal,
     doc_id |-> NoneVal, metadata |-> <<>>]

\* The record extract_citations builds for one match.
CitationOfMatch(t, m) ==
    LET span == expand_citation_span_to_sentence(t, m.start, m.end)
    IN  Citation(IntOf(m.group1), NoneInt, m.start, m.end, span[1], span[2])

extract_citations(t) ==
    LET ms == Finditer(t, 0)
    IN  [k \in 1..Len(ms) |-> CitationOfMatch(t, ms[k])]

\* --------------------------------------------------------- renumbering
\* sorted(xs, key=lambda c: c.startIndex): stable insertion by ascending key
RECURSIVE InsertAsc(_, _)
InsertAsc(sorted, x) ==
    IF Len(sorted) = 0 THEN <<x>>
    ELSE IF sorted[Len(sorted)].startIndex <= x.startIndex
         THEN Append(sorted, x)
         ELSE Append(InsertAsc(SubSeq(sorted, 1, Len(sorted) - 1), x),
                     sorted[Len(sorted)])

RECURSIVE SortedByStart(_)
SortedByStart(xs) ==
    IF Len(xs) = 0 THEN <<>>
    ELSE InsertAsc(SortedByStart(SubSeq(xs, 1, Len(xs) - 1)), xs[Len(xs)])

\* sorted(xs, key=lambda x: x["startIndex"], reverse=True): stable, descending
RECURSIVE InsertDesc(_, _)
InsertDesc(sorted, x) ==
    IF Len(sorted) = 0 THEN <<x>>
    ELSE IF sorted[Len(sorted)].startIndex >= x.startIndex
         THEN Append(sorted, x)
         ELSE Append(InsertDesc(SubSeq(sorted, 1, Len(sorted) - 1), x),
                     sorted[Len(sorted)])

RECURSIVE SortedByStartDesc(_)
SortedByStartDesc(xs) ==
    IF Len(xs) = 0 THEN <<>>
    ELSE InsertDesc(SortedByStartDesc(SubSeq(xs, 1, Len(xs) - 1)), xs[Len(xs)])

\* Step 2 of reassign_citations_in_order: the loop that fills old_to_new and
\* labeled.  old_to_new is a function on the raw numbers seen so far.
RECURSIVE LabelLoopMutNoUnify(_, _, _, _)
LabelLoopMutNoUnify(cits, k, old_to_new, labeled) ==
    IF k > Len(cits) THEN labeled
    ELSE LET old_ref == cits[k].index
             new_ref == k
         IN  LabelLoopMutNoUnify(cits, k + 1, old_to_new,
                 Append(labeled, [rawIndex |-> old_ref, newIndex |-> new_ref,
                                  startIndex |-> cits[k].startIndex,
                                  endIndex |-> cits[k].endIndex]))

RECURSIVE LabelLoop(_, _, _, _)
LabelLoop(cits, k, old_to_new, labeled) ==
    IF k > Len(cits) THEN labeled
    ELSE LET old_ref == cits[k].index
             next_new_index == Cardinality(DOMAIN old_to_new) + 1
             map == IF old_ref \in DOMAIN old_to_new THEN old_to_new
                    ELSE [r \in DOMAIN old_to_new \cup {old_ref} |->
                            IF r = old_ref THEN next_new_index
                            ELSE old_to_new[r]]
             new_ref == map[old_ref]
         IN  LabelLoop(cits, k + 1, map,
                 Append(labeled, [rawIndex |-> old_ref, newIndex |-> new_ref,
                                  startIndex |-> cits[k].startIndex,
                                  endIndex |-> cits[k].endIndex]))

\* result_chars[s_i:e_i] = list(replacement)
Splice(chars, s_i, e_i, replacement) ==
    LET lo == IF s_i > Len(chars) THEN Len(chars) ELSE s_i
        hi0 == IF e_i > Len(chars) THEN Len(chars) ELSE e_i
        hi == IF hi0 < lo THEN lo ELSE hi0
    IN  SubSeq(chars, 1, lo) \o replacement \o SubSeq(chars, hi + 1, Len(chars))

\* replacement = f"[{new_ref}]"
ReplacementMutZeroBased(new_ref) == <<"[">> \o StrOf(new_ref - 1) \o <<"]">>

Replacement(new_ref) == <<"[">> \o StrOf(new_ref) \o <<"]">>

\* Step 3: the splice loop over the items in the order given.
RECURSIVE SpliceLoop(_, _, _)
SpliceLoop(chars, items, k) ==
    IF k > Len(items) THEN chars
    ELSE SpliceLoop(Splice(chars, items[k].startIndex, items[k].endIndex,
                           Replacement(items[k].newIndex)),
                    items, k + 1)

\* Step 3 as a left-to-right replacement (ascending offsets).
ReplaceBracketsMutAscending(t, labeled) ==
    SpliceLoop(t, SortedByStart(labeled), 1)

ReplaceBrackets(t, labeled) ==
    SpliceLoop(t, SortedByStartDesc(labeled), 1)

\* The returned citations with the offsets recorded before the replacement.
ZipLabeledMutStaleOffsets(labeled, updated) ==
    LET n == IF Len(labeled) < Len(updated) THEN Len(labeled) ELSE Len(updated)
    IN  [k \in 1..n |->
            Citation(labeled[k].newIndex, labeled[k].rawIndex,
                     labeled[k].startIndex, labeled[k].endIndex,
                     updated[k].snippetStartIndex, updated[k].snippetEndIndex)]

\* Step 4: zip(labeled, updated_extracted) into typed citations.
ZipLabeled(labeled, updated) ==
    LET n == IF Len(labeled) < Len(updated) THEN Len(labeled) ELSE Len(updated)
    IN  [k \in 1..n |->
            Citation(labeled[k].newIndex, labeled[k].rawIndex,
                     updated[k].startIndex, updated[k].endIndex,
                     updated[k].snippetStartIndex, updated[k].snippetEndIndex)]

\* reassign_citations_in_order(text, citations) = <<new_text, new_citations>>
reassign_citations_in_order(t, citations) ==
    IF Len(citations) = 0 THEN <<t, <<>>>>
    ELSE LET sorted_cits == SortedByStart(citations)
             labeled == LabelLoop(sorted_cits, 1, <<>>, <<>>)
             new_text == ReplaceBrackets(t, labeled)
             updated_extracted == SortedByStart(extract_citations(new_text))
         IN  <<new_text, ZipLabeled(SortedByStart(labeled), updated_extracted)>>

\* ------------------------------------------------------------- sources
\* An optional list field of AggregateSearchResult: None or a list.
NoneList == [is_none |-> TRUE, items |-> <<>>]

SomeList(items) == [is_none |-> FALSE, items |-> items]

\* `if aggregated.chunk_search_results:` -- None and [] are both falsy
Truthy(l) == ~l.is_none /\ Len(l.items) > 0

\* The first loop of map_citations_to_sources: chunk, graph, web, contextDoc.
Tagged(l, source_type) ==
    IF Truthy(l)
    THEN [k \in 1..Len(l.items) |-> [obj |-> l.items[k], stype |-> source_type]]
    ELSE <<>>

FlattenMutWebFirst(aggregated) ==
    Tagged(aggregated.web_search_results, "web")
    \o Tagged(aggregated.chunk_search_results, "chunk")
    \o Tagged(aggregated.graph_search_results, "graph")
    \o Tagged(aggregated.context_document_results, "contextDoc")

Flatten(aggregated) ==
    Tagged(aggregated.chunk_search_results, "chunk")
    \o Tagged(aggregated.graph_search_results, "graph")
    \o Tagged(aggregated.web_search_results, "web")
    \o Tagged(aggregated.context_document_results, "contextDoc")

\* [str(cid) for cid in source_obj.collection_ids]
StrEach(vs) == [k \in 1..Len(vs) |-> Str(vs[k])]

\* The per-type field updates of map_citations_to_sources.
FillFromSource(cit, source_type, source_obj) ==
    LET updated_cit == [cit EXCEPT !.sourceType = source_type]
    IN  CASE source_type = "chunk" ->
              [updated_cit EXCEPT
                 !.id = Str(AttrOf(source_obj, "id")),
                 !.document_id = Str(AttrOf(source_obj, "document_id")),
                 !.owner_id = IF source_obj.has_owner
                              THEN Str(AttrOf(source_obj, "owner_id"))
                              ELSE NoneVal,
                 !.collection_ids = StrEach(source_obj.collection_ids),
                 !.score = AttrOf(source_obj, "score"),
                 !.text = AttrOf(source_obj, "text"),
                 !.metadata = <<<<"**", AttrOf(source_obj, "metadata")>>>>]
          [] source_type = "graph" ->
              [updated_cit EXCEPT
                 !.score = AttrOf(source_obj, "score"),
                 !.metadata =
                    <<<<"**", AttrOf(source_obj, "metadata")>>>>
                    \o (IF source_obj.has_content
                        THEN <<<<"graphContent",
                                 <<"model_dump", "content", source_obj.oid>>>>>>
                        ELSE <<>>)]
          [] source_type = "web" ->
              [updated_cit EXCEPT
                 !.metadata = <<<<"link", AttrOf(source_obj, "link")>>,
                                <<"title", AttrOf(source_obj, "title")>>,
                                <<"position", AttrOf(source_obj, "position")>>>>]
          [] source_type = "contextDoc" ->
              [updated_cit EXCEPT
                 !.metadata = <<<<"document", AttrOf(source_obj, "document")>>,
                                <<"chunks", AttrOf(source_obj, "chunks")>>>>]
          [] OTHER -> updated_cit

\* One iteration of the second loop of map_citations_to_sources.
MapOneToSourceMutOffByOne(cit, flat_source_list) ==
    LET idx_0_based == cit.index
    IN  IF idx_0_based < 0 \/ idx_0_based >= Len(flat_source_list)
        THEN cit
        ELSE FillFromSource(cit, flat_source_list[idx_0_based + 1].stype,
                            flat_source_list[idx_0_based + 1].obj)

MapOneToSource(cit, flat_source_list) ==
    LET idx_0_based == cit.index - 1
    IN  IF idx_0_based < 0 \/ idx_0_based >= Len(flat_source_list)
        THEN cit
        ELSE FillFromSource(cit, flat_source_list[idx_0_based + 1].stype,
                            flat_source_list[idx_0_based + 1].obj)

\* Which object one iteration of the second loop appends for the k-th of n
\* input citations.  The input citation objects are numbered 1..n; the object
\* cit.copy() creates for the k-th is numbered n + k.
MapOneToSourceObject(cit, k, n, flat_source_list) ==
    LET idx_0_based == cit.index - 1
    IN  IF idx_0_based < 0 \/ idx_0_based >= Len(flat_source_list)
        THEN k
        ELSE n + k

\* The objects in the list map_citations_to_sources returns.
map_citations_to_sources_objects(citations, aggregated) ==
    LET flat_source_list == Flatten(aggregated)
    IN  [k \in 1..Len(citations) |->
            MapOneToSourceObject(citations[k], k, Len(citations), flat_source_list)]

map_citations_to_sources(citations, aggregated) ==
    LET flat_source_list == Flatten(aggregated)
    IN  [k \in 1..Len(citations) |-> MapOneToSource(citations[k], flat_source_list)]

\* ----------------------------------------------------------- collector
\* collector.get_all_results(): the ledger of (source_type, obj, agg_idx)
get_all_results(c) == c.results_in_order

\* aggregator_map[agg_idx] = (stype, obj) for every ledger entry in order:
\* a later entry with the same aggregator index replaces an earlier one.
RECURSIVE AggregatorMap(_, _, _)
AggregatorMap(ledger, k, map) ==
    IF k > Len(ledger) THEN map
    ELSE AggregatorMap(ledger, k + 1,
            [i \in DOMAIN map \cup {ledger[k].agg_idx} |->
                IF i = ledger[k].agg_idx
                THEN [stype |-> ledger[k].stype, obj |-> ledger[k].obj]
                ELSE map[i]])

\* The per-type field updates of map_citations_to_collector.
FillFromCollector(cit, source_type, result_obj) ==
    LET updated == [cit EXCEPT !.sourceType = source_type]
    IN  CASE source_type = "chunk" ->
              [updated EXCEPT
                 !.id = Str(AttrOf(result_obj, "id")),
                 !.document_id = Str(AttrOf(result_obj, "document_id")),
                 !.owner_id = IF result_obj.has_owner
                              THEN Str(AttrOf(result_obj, "owner_id"))
                              ELSE NoneVal,
                 !.collection_ids = StrEach(result_obj.collection_ids),
                 !.score = AttrOf(result_obj, "score"),
                 !.text = AttrOf(result_obj, "text"),
                 !.metadata = <<<<"**", AttrOf(result_obj, "metadata")>>>>]
          [] source_type = "graph" ->
              [updated EXCEPT
                 !.score = AttrOf(result_obj, "score"),
                 !.metadata =
                    <<<<"**", AttrOf(result_obj, "metadata")>>>>
                    \o (IF result_obj.has_content
                        THEN <<<<"graphContent",
                                 <<"model_dump", "content", result_obj.oid>>>>>>
                        ELSE <<>>)]
          [] source_type = "web" ->
              [updated EXCEPT
                 !.metadata = <<<<"link", AttrOf(result_obj, "link")>>,
                                <<"title", AttrOf(result_obj, "title")>>,
                                <<"position", AttrOf(result_obj, "position")>>>>]
          [] source_type = "contextDoc" ->
              [updated EXCEPT
                 !.metadata = <<<<"document", AttrOf(result_obj, "document")>>,
                                <<"chunks", AttrOf(result_obj, "chunks")>>>>]
          [] OTHER -> [updated EXCEPT !.metadata = <<>>]

\* One iteration of the loop of map_citations_to_collector.
MapOneToCollectorMutByIndex(cit, aggregator_map) ==
    LET old_ref == cit.index
    IN  IF old_ref \in DOMAIN aggregator_map
        THEN FillFromCollector(cit, aggregator_map[old_ref].stype,
                               aggregator_map[old_ref].obj)
        ELSE [cit EXCEPT !.sourceType = "unknown"]

MapOneToCollector(cit, aggregator_map) ==
    LET old_ref == cit.rawIndex
    IN  IF old_ref \in DOMAIN aggregator_map
        THEN FillFromCollector(cit, aggregator_map[old_ref].stype,
                               aggregator_map[old_ref].obj)
        ELSE [cit EXCEPT !.sourceType = "unknown"]

\* Which object one iteration of the loop appends for the k-th of n input
\* citations: both branches append updated = cit.copy().
MapOneToCollectorObject(cit, k, n, aggregator_map) ==
    LET old_ref == cit.rawIndex
    IN  IF old_ref \in DOMAIN aggregator_map
        THEN n + k
        ELSE n + k

\* The objects in the list map_citations_to_collector returns.
map_citations_to_collector_objects(citations, c) ==
    LET aggregator_map == AggregatorMap(get_all_results(c), 1, <<>>)
    IN  [k \in 1..Len(citations) |->
            MapOneToCollectorObject(citations[k], k, Len(citations), aggregator_map)]

map_citations_to_collector(citations, c) ==
    LET aggregator_map == AggregatorMap(get_all_results(c), 1, <<>>)
    IN  [k \in 1..Len(citations) |-> MapOneToCollector(citations[k], aggregator_map)]

\* ------------------------------------------------------- orchestrators
\* finalize_citations_in_message(raw_text, search_results)
\*   = <<relabeled_text, mapped_citations>>
finalize_citations_in_message(t, aggregated) ==
    LET raw_cits == extract_citations(t)
        re == reassign_citations_in_order(t, raw_cits)
    IN  <<re[1], map_citations_to_sources(re[2], aggregated)>>

\* bracket_occurrences of finalize_citations_with_collector
BracketOccurrences(t) ==
    LET ms == Finditer(t, 0)
    IN  [k \in 1..Len(ms) |->
            [old_ref |-> IntOf(ms[k].group1),
             start_index |-> ms[k].start, end_index |-> ms[k].end]]

\* old_to_new numbered by first appearance in the text instead of by value.
OldToNewSortedMutFirstAppearance(occs) ==
    LET refs == {occs[k].old_ref : k \in 1..Len(occs)}
        first(r) == CHOOSE k \in 1..Len(occs) :
                        /\ occs[k].old_ref = r
                        /\ \A j \in 1..(k - 1) : occs[j].old_ref # r
    IN  [r \in refs |-> Cardinality({q \in refs : first(q) <= first(r)})]

\* old_to_new over sorted(set(old refs)): enumerate(..., start=1) gives each
\* old ref its rank in ascending order.
OldToNewSorted(occs) ==
    LET refs == {occs[k].old_ref : k \in 1..Len(occs)}
    IN  [r \in refs |-> Cardinality({q \in refs : q <= r})]

\* The inner loop: the first ledger entry whose agg_idx == old_ref, or 0.
RECURSIVE FirstWithIndex(_, _, _)
FirstWithIndex(all_items, old_ref, k) ==
    IF k > Len(all_items) THEN 0
    ELSE IF all_items[k].agg_idx = old_ref THEN k
         ELSE FirstWithIndex(all_items, old_ref, k + 1)

\* getattr(result_obj, name, default) on the four result types
HasAttr(stype, name) ==
    \/ stype = "chunk" /\ name \in {"document_id", "text", "metadata"}
    \/ stype = "graph" /\ name \in {"metadata"}

\* The Citation built for one occurrence by finalize_citations_with_collector.
CollectorCitation(occ, old_to_new, all_items) ==
    LET new_ref == old_to_new[occ.old_ref]
        base == Citation(new_ref, occ.old_ref, occ.start_index, occ.end_index,
                         NoneInt, NoneInt)
        k == FirstWithIndex(all_items, occ.old_ref, 1)
    IN  IF k # 0
        THEN LET source_type == all_items[k].stype
                 result_obj == all_items[k].obj
             IN  [base EXCEPT
                    !.sourceType = source_type,
                    !.doc_id = IF HasAttr(source_type, "document_id")
                               THEN Str(AttrOf(result_obj, "document_id"))
                               ELSE Str(NoneVal),
                    !.text = IF HasAttr(source_type, "text")
                             THEN AttrOf(result_obj, "text") ELSE NoneVal,
                    !.metadata = IF HasAttr(source_type, "metadata")
                                 THEN <<<<"**", AttrOf(result_obj, "metadata")>>>>
                                 ELSE <<>>]
        ELSE [base EXCEPT !.sourceType = "unknown"]

\* reindex(match) of finalize_citations_with_collector
reindex(m, old_to_new) == <<"[">> \o StrOf(old_to_new[IntOf(m.group1)]) \o <<"]">>

\* pattern.sub(reindex, raw_text): the text rebuilt left to right, every
\* match replaced by reindex(match).
RECURSIVE SubReindex(_, _, _, _)
SubReindex(t, ms, k, old_to_new) ==
    LET from == IF k = 1 THEN 0 ELSE ms[k - 1].end
    IN  IF k > Len(ms) THEN Slice(t, from, Len(t))
        ELSE Slice(t, from, ms[k].start)
             \o reindex(ms[k], old_to_new)
             \o SubReindex(t, ms, k + 1, old_to_new)

\* finalize_citations_with_collector(raw_text, collector)
\*   = <<relabeled_text, final_citations>>
finalize_citations_with_collector(t, c) ==
    IF Len(t) = 0 THEN <<t, <<>>>>
    ELSE LET ms == Finditer(t, 0)
         IN  IF Len(ms) = 0 THEN <<t, <<>>>>
             ELSE LET occs == BracketOccurrences(t)
                      old_to_new == OldToNewSorted(occs)
                      all_items == get_all_results(c)
                  IN  <<SubReindex(t, ms, 1, old_to_new),
                        [k \in 1..Len(occs) |->
                            CollectorCitation(occs[k], old_to_new, all_items)]>>

\* ------------------------------------------------- collector reordering
\* max((c.index for c in final_citations), default=0)
RECURSIVE MaxIndex(_, _)
MaxIndex(final_citations, k) ==
    IF k > Len(final_citations) THEN 0
    ELSE LET rest == MaxIndex(final_citations, k + 1)
         IN  IF final_citations[k].index > rest THEN final_citations[k].index
             ELSE rest

\* The loop of reorder_collector_to_match_final_brackets from its k-th
\* citation on.  A slot of new_list is <<>> (None) or <<item>>;
\* new_list[new_idx - 1] counts from the end when new_idx - 1 is negative.
RECURSIVE ReorderLoop(_, _, _, _)
ReorderLoop(final_citations, old_list, k, new_list) ==
    IF k > Len(final_citations) THEN new_list
    ELSE LET old_idx == final_citations[k].rawIndex
             new_idx == final_citations[k].index
             pos == old_idx - 1
             slot == IF new_idx >= 1 THEN new_idx ELSE Len(new_list) + new_idx
         IN  IF old_idx = NoneInt \/ old_idx = 0
             THEN ReorderLoop(final_citations, old_list, k + 1, new_list)
             ELSE IF pos < 0 \/ pos >= Len(old_list)
             THEN ReorderLoop(final_citations, old_list, k + 1, new_list)
             ELSE IF new_list[slot] = <<>>
             THEN ReorderLoop(final_citations, old_list, k + 1,
                              [new_list EXCEPT ![slot] = <<old_list[pos + 1]>>])
             ELSE ReorderLoop(final_citations, old_list, k + 1, new_list)

\* [x for x in new_list if x is not None]
RECURSIVE WithoutNone(_, _)
WithoutNone(new_list, k) ==
    IF k > Len(new_list) THEN <<>>
    ELSE new_list[k] \o WithoutNone(new_list, k + 1)

\* The collector after reorder_collector_to_match_final_brackets.
reorder_collector_to_match_final_brackets(c, final_citations) ==
    LET old_list == get_all_results(c)
        max_index == MaxIndex(final_citations, 1)
        new_list == ReorderLoop(final_citations, old_list, 1,
                                [i \in 1..max_index |-> <<>>])
    IN  [c EXCEPT !.results_in_order = WithoutNone(new_list, 1)]

\* ------------------------------------------------------------ renderers
\* json.dumps([r.as_dict() for r in ...], default=str): the array of the
\* items' dictionary representations, each named by the method that built it
\* and the object it was built from.
JsonDumps(items, method) ==
    [kind |-> "json", marker |-> "",
     items |-> [k \in 1..Len(items) |-> [method |-> method, oid |-> items[k].oid]]]

StartTag(marker) == [kind |-> "start", marker |-> marker, items |-> <<>>]

EndTag(marker) == [kind |-> "end", marker |-> marker, items |-> <<>>]

\* A block of format_search_results_for_stream that tests the category
\* against None only.
StreamBlockMutNotNone(l, marker, method) ==
    IF ~l.is_none
    THEN <<StartTag(marker), JsonDumps(l.items, method), EndTag(marker)>>
    ELSE <<>>

\* One `if results.<category>:` block of format_search_results_for_stream:
\* what it appends to context.
StreamBlock(l, marker, method) ==
    IF Truthy(l)
    THEN <<StartTag(marker), JsonDumps(l.items, method), EndTag(marker)>>
    ELSE <<>>

\* format_search_results_for_stream(results): context as the sequence of its
\* pieces.
format_search_results_for_stream(results) ==
    StreamBlock(results.chunk_search_results, "chunk_search", "as_dict")
    \o StreamBlock(results.graph_search_results, "graph_search", "dict")
    \o StreamBlock(results.web_search_results, "web_search", "to_dict")
    \o StreamBlock(results.context_document_results, "content", "to_dict")

\* One line of the text format_search_results_for_llm builds: a category
\* title, a "Source [X]:" header or a detail line of the item with that oid.
Line(kind, text, oid) == [kind |-> kind, text |-> text, oid |-> oid]

\* The lookup without its identity test: the first ledger entry's index.
GetAggregatorIndexMutNoTest(all_results, item, k) ==
    IF k > Len(all_results) THEN NoneInt ELSE all_results[k].agg_idx

\* get_aggregator_index_for_item(item), scanning the ledger from its k-th
\* entry: the aggregator index of the first entry whose object is the item
\* (`obj is item`: objects are identified by their oid), or None.
RECURSIVE get_aggregator_index_for_item(_, _, _)
get_aggregator_index_for_item(all_results, item, k) ==
    IF k > Len(all_results) THEN NoneInt
    ELSE IF all_results[k].obj.oid = item.oid THEN all_results[k].agg_idx
         ELSE get_aggregator_index_for_item(all_results, item, k + 1)

\* f"Source [{agg_idx}]:" after the "???" fallback
SourceHeader(agg_idx, item) ==
    Line("source",
         <<"Source [">>
         \o (IF agg_idx = NoneInt THEN <<"?", "?", "?">> ELSE StrOf(agg_idx))
         \o <<"]:">>,
         item.oid)

\* The type of a graph result's content: the results of a category that
\* carry content are a community, an entity, a relationship, ... in turn.
GraphContentType(g) ==
    IF ~g.has_content THEN "none"
    ELSE <<"community", "entity", "relationship">>[((g.oid - 1) % 3) + 1]

\* A context document that carries content has a summary and one chunk.
DocSummary(doc_result) == doc_result.has_content

DocChunks(doc_result) == IF doc_result.has_content THEN 1 ELSE 0

\* The lines appended after the header of one item.
DetailLines(stype, item) ==
    CASE stype = "chunk" -> <<Line("detail", <<"text">>, item.oid)>>
      [] stype = "graph" ->
            (CASE GraphContentType(item) = "community" ->
                    <<Line("detail", <<"Community Name: ">>, item.oid),
                      Line("detail", <<"ID: ">>, item.oid),
                      Line("detail", <<"Summary: ">>, item.oid)>>
               [] GraphContentType(item) = "entity" ->
                    <<Line("detail", <<"Entity Name: ">>, item.oid),
                      Line("detail", <<"Description: ">>, item.oid)>>
               [] GraphContentType(item) = "relationship" ->
                    <<Line("detail", <<"Relationship: ">>, item.oid)>>
               [] OTHER -> <<>>)
      [] stype = "web" ->
            <<Line("detail", <<"Title: ">>, item.oid),
              Line("detail", <<"Link: ">>, item.oid),
              Line("detail", <<"Snippet: ">>, item.oid)>>
      [] OTHER ->
            <<Line("detail", <<"Document Title: ">>, item.oid)>>
            \o (IF DocSummary(item)
                THEN <<Line("detail", <<"Summary: ">>, item.oid)>> ELSE <<>>)
            \o [i \in 1..DocChunks(item) |->
                   Line("detail", <<"Chunk ">> \o StrOf(i) \o <<": ">>, item.oid)]

\* The loop over one category from its k-th item on.
RECURSIVE ItemLines(_, _, _, _)
ItemLines(items, stype, all_results, k) ==
    IF k > Len(items) THEN <<>>
    ELSE <<SourceHeader(get_aggregator_index_for_item(all_results, items[k], 1),
                        items[k])>>
         \o DetailLines(stype, items[k])
         \o ItemLines(items, stype, all_results, k + 1)

\* One `if results.<category>:` block of format_search_results_for_llm.
LlmBlock(l, title, stype, all_results) ==
    IF Truthy(l)
    THEN <<Line("title", <<title>>, 0)>> \o ItemLines(l.items, stype, all_results, 1)
    ELSE <<>>

\* format_search_results_for_llm(results, collector): the lines it joins.
format_search_results_for_llm(results, c) ==
    LET all_results == get_all_results(c)
    IN  LlmBlock(results.chunk_search_results, "Vector Search Results:",
                 "chunk", all_results)
        \o LlmBlock(results.graph_search_results, "Graph Search Results:",
                    "graph", all_results)
        \o LlmBlock(results.web_search_results, "Web Search Results:",
                    "web", all_results)
        \o LlmBlock(results.context_document_results, "Local Context Documents:",
                    "contextDoc", all_results)

\* -------------------------------------------------------------- inputs
\* Pieces of generated text: whole brackets (one that shrinks when it is
\* renumbered), stray bracket characters and digits, a sentence terminator,
\* whitespace and a letter.
TextTokens ==
    { <<"[", "1", "]">>, <<"[", "2", "]">>, <<"[", "1", "0", "]">>,
      <<"[">>, <<"]">>, <<"1">>, <<".">>, <<" ">>, <<"a">> }

\* Bracket references only, for the inputs that vary the sources.
RefTokens ==
    { <<"[", "0", "]">>, <<"[", "1", "]">>, <<"[", "2", "]">>, <<"[", "3", "]">> }

RECURSIVE TextsOver(_, _)
TextsOver(tokens, n) ==
    IF n = 0 THEN {<<>>}
    ELSE LET shorter == TextsOver(tokens, n - 1)
         IN  shorter \cup {p \o tk : p \in shorter, tk \in tokens}

\* "Paris is in France[2]. Also see[2] and[5]."
ParisText ==
    <<"P", "a", "r", "i", "s", " ", "i", "s", " ", "i", "n", " ",
      "F", "r", "a", "n", "c", "e", "[", "2", "]", ".", " ",
      "A", "l", "s", "o", " ", "s", "e", "e", "[", "2", "]", " ",
      "a", "n", "d", "[", "5", "]", ".">>

\* "Paris is in France[1]. Also see[1] and[2]."
ParisRelabeled ==
    <<"P", "a", "r", "i", "s", " ", "i", "s", " ", "i", "n", " ",
      "F", "r", "a", "n", "c", "e", "[", "1", "]", ".", " ",
      "A", "l", "s", "o", " ", "s", "e", "e", "[", "1", "]", " ",
      "a", "n", "d", "[", "2", "]", ".">>

\* "A. [1] B."
SnippetText == <<"A", ".", " ", "[", "1", "]", " ", "B", ".">>

\* "[0]x[1][2] [3][4][5][6]?\n[7][8]! [9][0]": ten distinct references, so
\* the tenth, "[9]", grows to "[10]" when it is renumbered.
TenRefsText ==
    <<"[", "0", "]", "x", "[", "1", "]", "[", "2", "]", " ",
      "[", "3", "]", "[", "4", "]", "[", "5", "]", "[", "6", "]", "?", "\n",
      "[", "7", "]", "[", "8", "]", "!", " ", "[", "9", "]", "[", "0", "]">>

ExampleTexts == {ParisText, SnippetText, TenRefsText}

\* The k-th result object of a category.  Every object has its own oid.
SourceObj(cat, k, rich) ==
    [oid |-> 10 * cat + k, has_owner |-> rich, has_content |-> rich,
     collection_ids |-> IF rich THEN <<<<"", "collection_ids[0]", 10 * cat + k>>>>
                        ELSE <<>>]

\* A category holding n results; an empty one is [] or None.
CategoryOf(cat, n, rich) ==
    IF n = 0 THEN (IF rich THEN SomeList(<<>>) ELSE NoneList)
    ELSE SomeList([k \in 1..n |-> SourceObj(cat, k, rich)])

\* The aggregate with the given number of results per category.  Aggregates
\* with an odd total carry the optional fields (owner_id, graph content,
\* collection ids) and empty lists; the others lack the optional fields and
\* have None for an empty category.
AggregateOf(nc, ng, nw, nd) ==
    LET rich == (nc + ng + nw + nd) % 2 = 1
    IN  [chunk_search_results |-> CategoryOf(1, nc, rich),
         graph_search_results |-> CategoryOf(2, ng, rich),
         web_search_results |-> CategoryOf(3, nw, rich),
         context_document_results |-> CategoryOf(4, nd, rich)]

Aggregates ==
    {AggregateOf(nc, ng, nw, nd) :
        nc \in 0..MaxPerCat, ng \in 0..MaxPerCat,
        nw \in 0..MaxPerCat, nd \in 0..MaxPerCat}

\* A collector to which the aggregate's results were added in category
\* order: aggregator indices 1..N in flattened order.
CollectorInOrder(aggregated) ==
    LET flat == Tagged(aggregated.chunk_search_results, "chunk")
                \o Tagged(aggregated.graph_search_results, "graph")
                \o Tagged(aggregated.web_search_results, "web")
                \o Tagged(aggregated.context_document_results, "contextDoc")
    IN  [results_in_order |->
            [k \in 1..Len(flat) |->
                [stype |-> flat[k].stype, obj |-> flat[k].obj, agg_idx |-> k]]]

\* A collector to which the web and context-document results were added
\* before the chunk and graph results: aggregator indices 1..N in that order.
CollectorWebFirst(aggregated) ==
    LET flat == Tagged(aggregated.web_search_results, "web")
                \o Tagged(aggregated.context_document_results, "contextDoc")
                \o Tagged(aggregated.chunk_search_results, "chunk")
                \o Tagged(aggregated.graph_search_results, "graph")
    IN  [results_in_order |->
            [k \in 1..Len(flat) |->
                [stype |-> flat[k].stype, obj |-> flat[k].obj, agg_idx |-> k]]]

\* A collector to which the web, context-document and graph results were
\* added, in that order, and the chunk results never.
CollectorWithoutChunks(aggregated) ==
    LET flat == Tagged(aggregated.web_search_results, "web")
                \o Tagged(aggregated.context_document_results, "contextDoc")
                \o Tagged(aggregated.graph_search_results, "graph")
    IN  [results_in_order |->
            [k \in 1..Len(flat) |->
                [stype |-> flat[k].stype, obj |-> flat[k].obj, agg_idx |-> k]]]

\* ------------------------------------------------------- state machine
VARIABLES
    raw_text,             \* the generated text
    search_results,       \* the AggregateSearchResult
    collector,            \* the SearchResultsCollector
    done,                 \* the functions called so far
    raw_citations,        \* extract_citations(raw_text)
    relabeled_text,       \* text returned by a renumbering
    new_citations,        \* citations returned by reassign_citations_in_order
    rescanned,            \* extract_citations(relabeled_text)
    map_input,            \* the citation list handed to the mappers
    mapped_citations,     \* result of map_citations_to_sources
    collector_citations,  \* result of map_citations_to_collector
    final_citations,      \* citations returned by a finalize_* orchestrator
    ledger_before,        \* the collector's ledger when the reordering began
    context,              \* result of format_search_results_for_stream
    lines,                \* the lines joined by format_search_results_for_llm
    mapped_objects,       \* the objects in the list map_citations_to_sources returned
    collector_objects,    \* the objects in the list map_citations_to_collector returned
    again_text,           \* text returned by renumbering the relabeled text
    again_citations       \* citations returned by renumbering the relabeled text

vars == <<raw_text, search_results, collector, done, raw_citations,
          relabeled_text, new_citations, rescanned, map_input,
          mapped_citations, collector_citations, final_citations,
          ledger_before, context, lines, mapped_objects, collector_objects,
          again_text, again_citations>>

Init ==
    /\ \/ /\ raw_text \in TextsOver(TextTokens, MaxTok) \cup ExampleTexts
          /\ search_results = AggregateOf(1, 0, 1, 0)
          /\ collector = CollectorInOrder(search_results)
       \/ /\ raw_text \in TextsOver(RefTokens, MaxRefs)
          /\ search_results \in Aggregates
          /\ collector \in {CollectorInOrder(search_results),
                            CollectorWebFirst(search_results)}
       \/ /\ raw_text = <<>>
          /\ search_results \in Aggregates
          /\ collector = CollectorWithoutChunks(search_results)
    /\ done = {}
    /\ raw_citations = <<>>
    /\ relabeled_text = <<>>
    /\ new_citations = <<>>
    /\ rescanned = <<>>
    /\ map_input = <<>>
    /\ mapped_citations = <<>>
    /\ collector_citations = <<>>
    /\ final_citations = <<>>
    /\ ledger_before = <<>>
    /\ context = <<>>
    /\ lines = <<>>
    /\ mapped_objects = <<>>
    /\ collector_objects = <<>>
    /\ again_text = <<>>
    /\ again_citations = <<>>

ExtractCitations ==
    /\ done = {}
    /\ raw_citations' = extract_citations(raw_text)
    /\ done' = {"extract_citations"}
    /\ UNCHANGED <<ledger_before, context, lines, mapped_objects,
                   collector_objects>>
    /\ UNCHANGED <<raw_text, search_results, collector, relabeled_text,
                   new_citations, rescanned, map_input, mapped_citations,
                   collector_citations, final_citations,
                   again_text, again_citations>>

ReassignCitationsInOrder ==
    /\ done = {"extract_citations"}
    /\ LET re == reassign_citations_in_order(raw_text, raw_citations)
       IN  /\ relabeled_text' = re[1]
           /\ new_citations' = re[2]
    /\ done' = done \cup {"reassign_citations_in_order"}
    /\ UNCHANGED <<ledger_before, context, lines, mapped_objects,
                   collector_objects>>
    /\ UNCHANGED <<raw_text, search_results, collector, raw_citations,
                   rescanned, map_input, mapped_citations,
                   collector_citations, final_citations,
                   again_text, again_citations>>

\* extract_citations on the text the renumbering returned
RescanRelabeled ==
    /\ done = {"extract_citations", "reassign_citations_in_order"}
    /\ rescanned' = extract_citations(relabeled_text)
    /\ done' = done \cup {"rescan"}
    /\ UNCHANGED <<ledger_before, context, lines, mapped_objects,
                   collector_objects>>
    /\ UNCHANGED <<raw_text, search_results, collector, raw_citations,
                   relabeled_text, new_citations, map_input, mapped_citations,
                   collector_citations, final_citations,
                   again_text, again_citations>>

\* The citation list the caller holds: the renumbered one once there is one.
CurrentCitations ==
    IF "reassign_citations_in_order" \in done THEN new_citations
    ELSE raw_citations

MapCitationsToSources ==
    /\ done \in {{"extract_citations"},
                 {"extract_citations", "reassign_citations_in_order"}}
    /\ map_input' = CurrentCitations
    /\ mapped_citations' = map_citations_to_sources(CurrentCitations, search_results)
    /\ mapped_objects' =
          map_citations_to_sources_objects(CurrentCitations, search_results)
    /\ done' = done \cup {"map_citations_to_sources"}
    /\ UNCHANGED <<ledger_before, context, lines, collector_objects>>
    /\ UNCHANGED <<raw_text, search_results, collector, raw_citations,
                   relabeled_text, new_citations, rescanned,
                   collector_citations, final_citations,
                   again_text, again_citations>>

MapCitationsToCollector ==
    /\ "extract_citations" \in done
    /\ "rescan" \notin done
    /\ "map_citations_to_collector" \notin done
    /\ map_input' = CurrentCitations
    /\ collector_citations' = map_citations_to_collector(CurrentCitations, collector)
    /\ collector_objects' =
          map_citations_to_collector_objects(CurrentCitations, collector)
    /\ done' = done \cup {"map_citations_to_collector"}
    /\ UNCHANGED <<ledger_before, context, lines, mapped_objects>>
    /\ UNCHANGED <<raw_text, search_results, collector, raw_citations,
                   relabeled_text, new_citations, rescanned,
                   mapped_citations, final_citations,
                   again_text, again_citations>>

FinalizeCitationsInMessage ==
    /\ done = {}
    /\ LET fin == finalize_citations_in_message(raw_text, search_results)
       IN  /\ relabeled_text' = fin[1]
           /\ final_citations' = fin[2]
    /\ done' = {"finalize_citations_in_message"}
    /\ UNCHANGED <<ledger_before, context, lines, mapped_objects,
                   collector_objects>>
    /\ UNCHANGED <<raw_text, search_results, collector, raw_citations,
                   new_citations, rescanned, map_input, mapped_citations,
                   collector_citations,
                   again_text, again_citations>>

FinalizeCitationsWithCollector ==
    /\ done = {}
    /\ LET fin == finalize_citations_with_collector(raw_text, collector)
       IN  /\ relabeled_text' = fin[1]
           /\ final_citations' = fin[2]
    /\ done' = {"finalize_citations_with_collector"}
    /\ UNCHANGED <<ledger_before, context, lines, mapped_objects,
                   collector_objects>>
    /\ UNCHANGED <<raw_text, search_results, collector, raw_citations,
                   new_citations, rescanned, map_input, mapped_citations,
                   collector_citations,
                   again_text, again_citations>>

\* reorder_collector_to_match_final_brackets on the aggregator-based
\* pipeline's final citations: the collector's ledger is replaced.
ReorderCollector ==
    /\ done = {"finalize_citations_with_collector"}
    /\ ledger_before' = get_all_results(collector)
    /\ collector' = reorder_collector_to_match_final_brackets(collector, final_citations)
    /\ done' = done \cup {"reorder_collector_to_match_final_brackets"}
    /\ UNCHANGED <<raw_text, search_results, raw_citations, relabeled_text,
                   new_citations, rescanned, map_input, mapped_citations,
                   collector_citations, final_citations, context, lines,
                   mapped_objects, collector_objects,
                   again_text, again_citations>>

\* The search results are rendered before any text has been generated.
FormatSearchResultsForStream ==
    /\ done = {}
    /\ raw_text = <<>>
    /\ context' = format_search_results_for_stream(search_results)
    /\ done' = {"format_search_results_for_stream"}
    /\ UNCHANGED <<raw_text, search_results, collector, raw_citations,
                   relabeled_text, new_citations, rescanned, map_input,
                   mapped_citations, collector_citations, final_citations,
                   ledger_before, lines,
                   mapped_objects, collector_objects,
                   again_text, again_citations>>

\* The prompt is rendered before any text has been generated.
FormatSearchResultsForLlm ==
    /\ done = {}
    /\ raw_text = <<>>
    /\ lines' = format_search_results_for_llm(search_results, collector)
    /\ done' = {"format_search_results_for_llm"}
    /\ UNCHANGED <<raw_text, search_results, collector, raw_citations,
                   relabeled_text, new_citations, rescanned, map_input,
                   mapped_citations, collector_citations, final_citations,
                   ledger_before, context,
                   mapped_objects, collector_objects,
                   again_text, again_citations>>

\* reassign_citations_in_order on the relabeled text and the citations
\* scanned from it.
RenumberAgain ==
    /\ done = {"extract_citations", "reassign_citations_in_order", "rescan"}
    /\ LET re == reassign_citations_in_order(relabeled_text, rescanned)
       IN  /\ again_text' = re[1]
           /\ again_citations' = re[2]
    /\ done' = done \cup {"renumber_again"}
    /\ UNCHANGED <<ledger_before, context, lines, mapped_objects,
                   collector_objects>>
    /\ UNCHANGED <<raw_text, search_results, collector, raw_citations,
                   relabeled_text, new_citations, rescanned, map_input,
                   mapped_citations, collector_citations, final_citations>>

Next ==
    \/ ExtractCitations
    \/ ReassignCitationsInOrder
    \/ RescanRelabeled
    \/ RenumberAgain
    \/ MapCitationsToSources
    \/ MapCitationsToCollector
    \/ FinalizeCitationsInMessage
    \/ FinalizeCitationsWithCollector
    \/ ReorderCollector
    \/ FormatSearchResultsForStream
    \/ FormatSearchResultsForLlm

Spec == Init /\ [][Next]_vars

\* ------------------------------------------------------------- claims
\* The "[<digits>]" substrings of a text, as <<start, end>> offsets: an
\* opening bracket, one or more digits, a closing bracket.
BracketSpans(t) ==
    LET opens == {i \in 0..(Len(t) - 1) : At(t, i) = "["}
        closes == {j \in 1..Len(t) : At(t, j - 1) = "]"}
    IN  {sp \in opens \X closes :
            /\ sp[2] - sp[1] >= 3
            /\ \A i \in (sp[1] + 1)..(sp[2] - 2) : IsDigit(At(t, i))}

\* The same substrings from left to right.
SpanSeq(t) ==
    LET spans == BracketSpans(t)
    IN  [k \in 1..Cardinality(spans) |->
            CHOOSE sp \in spans :
                Cardinality({o \in spans : o[1] < sp[1]}) = k - 1]

\* The number written in a span.
SpanNumber(t, sp) == IntOf(Slice(t, sp[1] + 1, sp[2] - 1))

Renumbered == "reassign_citations_in_order" \in done

\* C1: the indices reassign_citations_in_order assigns to the citations
\* scanned from a text are exactly 1..U, U the number of distinct raw
\* bracket numbers; a raw number met for the first time gets the next unused
\* index; and two occurrences share an index iff they share a raw number.
C1_ContiguousFirstAppearance ==
    Renumbered =>
        LET n == Len(new_citations)
            U == Cardinality({SpanNumber(raw_text, sp) : sp \in BracketSpans(raw_text)})
        IN  /\ n = Len(raw_citations)
            /\ \A k \in 1..n : new_citations[k].rawIndex = raw_citations[k].index
            /\ {new_citations[k].index : k \in 1..n} = 1..U
            /\ \A j \in 1..n :
                  (\A i \in 1..(j - 1) :
                      new_citations[i].rawIndex # new_citations[j].rawIndex)
                  => new_citations[j].index =
                       Cardinality({new_citations[i].rawIndex : i \in 1..(j - 1)}) + 1
            /\ \A i, j \in 1..n :
                  (new_citations[i].index = new_citations[j].index)
                  <=> (new_citations[i].rawIndex = new_citations[j].rawIndex)

\* A repeated raw number, a second distinct one, and a raw number that
\* differs from its new index.
C1_Witness ==
    /\ Renumbered
    /\ Len(new_citations) = 3
    /\ new_citations[1].rawIndex = new_citations[2].rawIndex
    /\ new_citations[1].index = 1
    /\ new_citations[3].index = 2
    /\ new_citations[3].rawIndex = 10

\* C2: re-scanning the text reassign_citations_in_order returned gives as
\* many records as the relabeled citation list, in the same order; the k-th
\* record shows the k-th citation's index at the k-th citation's offsets.
C2_RoundTrip ==
    "rescan" \in done =>
        /\ Len(rescanned) = Len(new_citations)
        /\ Len(rescanned) = Len(raw_citations)
        /\ \A k \in 1..Len(new_citations) :
              /\ k <= Len(rescanned)
              /\ rescanned[k].index = new_citations[k].index
              /\ rescanned[k].startIndex = new_citations[k].startIndex
              /\ rescanned[k].endIndex = new_citations[k].endIndex
              /\ Slice(relabeled_text, new_citations[k].startIndex,
                       new_citations[k].endIndex)
                 = Bracket(new_citations[k].index)

\* A renumbering that changed the length of the text, re-scanned.
C2_Witness ==
    /\ "rescan" \in done
    /\ Len(rescanned) >= 2
    /\ Len(relabeled_text) # Len(raw_text)
    /\ rescanned[2].startIndex # raw_citations[2].startIndex

\* The text t, whose brackets from left to right are spans, with its k-th
\* and later brackets replaced by "[index]" of the k-th and later citations,
\* read from offset `from`.
RECURSIVE RelabelFrom(_, _, _, _, _)
RelabelFrom(t, spans, cits, k, from) ==
    IF k > Len(spans) \/ k > Len(cits)
    THEN Slice(t, from, Len(t))
    ELSE Slice(t, from, spans[k][1])
         \o Bracket(cits[k].index)
         \o RelabelFrom(t, spans, cits, k + 1, spans[k][2])

\* C3: the relabeled text of the position-based renumbering is the raw text
\* with every bracket replaced by "[<its new index>]" and every other
\* character kept in place; the Paris example gives the documented result.
C3_OnlyBracketsChange ==
    LET spans == SpanSeq(raw_text)
    IN  /\ Renumbered =>
              /\ Len(new_citations) = Len(spans)
              /\ relabeled_text = RelabelFrom(raw_text, spans, new_citations, 1, 0)
              /\ raw_text = ParisText =>
                    /\ relabeled_text = ParisRelabeled
                    /\ [k \in 1..Len(new_citations) |->
                           <<new_citations[k].index, new_citations[k].rawIndex>>]
                       = << <<1, 2>>, <<1, 2>>, <<2, 5>> >>
        /\ done = {"finalize_citations_in_message"} =>
              /\ Len(final_citations) = Len(spans)
              /\ relabeled_text = RelabelFrom(raw_text, spans, final_citations, 1, 0)
              /\ raw_text = ParisText =>
                    /\ relabeled_text = ParisRelabeled
                    /\ [k \in 1..Len(final_citations) |->
                           <<final_citations[k].index, final_citations[k].rawIndex>>]
                       = << <<1, 2>>, <<1, 2>>, <<2, 5>> >>

\* The Paris example, run through the position-based pipeline.
C3_Witness ==
    /\ done = {"finalize_citations_in_message"}
    /\ raw_text = ParisText
    /\ relabeled_text = ParisRelabeled
    /\ Len(final_citations) = 3

\* The aggregate's categories that hold results, as lists: None counts as
\* empty.
ItemsOf(l) == IF l.is_none THEN <<>> ELSE l.items

\* The category and the object at 0-based position p of the aggregate read
\* in the order chunk, graph, web, contextDoc; "none" past its end.
SourceAt(aggregated, p) ==
    LET c == ItemsOf(aggregated.chunk_search_results)
        g == ItemsOf(aggregated.graph_search_results)
        w == ItemsOf(aggregated.web_search_results)
        d == ItemsOf(aggregated.context_document_results)
    IN  IF p < 0 THEN [stype |-> "none", oid |-> 0]
        ELSE IF p < Len(c) THEN [stype |-> "chunk", oid |-> c[p + 1].oid]
        ELSE IF p < Len(c) + Len(g)
             THEN [stype |-> "graph", oid |-> g[p - Len(c) + 1].oid]
        ELSE IF p < Len(c) + Len(g) + Len(w)
             THEN [stype |-> "web", oid |-> w[p - Len(c) - Len(g) + 1].oid]
        ELSE IF p < Len(c) + Len(g) + Len(w) + Len(d)
             THEN [stype |-> "contextDoc",
                   oid |-> d[p - Len(c) - Len(g) - Len(w) + 1].oid]
        ELSE [stype |-> "none", oid |-> 0]

\* Number of results of the aggregate.
TotalSources(aggregated) ==
    Len(ItemsOf(aggregated.chunk_search_results))
    + Len(ItemsOf(aggregated.graph_search_results))
    + Len(ItemsOf(aggregated.web_search_results))
    + Len(ItemsOf(aggregated.context_document_results))

\* The object a mapped citation was filled from: every per-type update puts
\* an attribute of the object first in the metadata.
SourceOid(cit) == IF Len(cit.metadata) = 0 THEN 0 ELSE cit.metadata[1][2][3]

\* C4: in the position-based pipeline every returned citation that has a
\* source assigned carries the source at position rawIndex (1-based) of the
\* aggregate read in the order chunk, graph, web, contextDoc.
C4_BracketBindsNthShownSource ==
    done = {"finalize_citations_in_message"} =>
        \A k \in 1..Len(final_citations) :
            final_citations[k].sourceType # NoneStr =>
                /\ final_citations[k].sourceType
                   = SourceAt(search_results, final_citations[k].rawIndex - 1).stype
                /\ SourceOid(final_citations[k])
                   = SourceAt(search_results, final_citations[k].rawIndex - 1).oid

\* The aggregator indices of the ledger.
LedgerIndices(c) ==
    {get_all_results(c)[k].agg_idx : k \in 1..Len(get_all_results(c))}

BothMapped ==
    {"map_citations_to_sources", "map_citations_to_collector"} \subseteq done

\* The inputs mapper equivalence is stated for: the ledger holds the
\* aggregate's items in flattened category order with indices 1..N, and every
\* citation's index equals its rawIndex.
EquivalentInputs ==
    /\ collector = CollectorInOrder(search_results)
    /\ \A k \in 1..Len(map_input) : map_input[k].index = map_input[k].rawIndex

\* C5 as stated: on such inputs the two mappers return identical output,
\* also for citations whose reference has no source.
C5_MappersIdentical ==
    (BothMapped /\ EquivalentInputs) => mapped_citations = collector_citations

\* C5 amended: on such inputs the two mappers return the same citation for
\* every reference that has a source (1 <= index <= N); for a reference
\* without one, map_citations_to_sources returns the citation unchanged and
\* map_citations_to_collector returns it with sourceType "unknown" and
\* nothing else changed.
C5_MappersAgreeInRange ==
    (BothMapped /\ EquivalentInputs) =>
        /\ Len(mapped_citations) = Len(map_input)
        /\ Len(collector_citations) = Len(map_input)
        /\ \A k \in 1..Len(map_input) :
              IF map_input[k].index \in 1..TotalSources(search_results)
              THEN /\ mapped_citations[k] = collector_citations[k]
                   /\ mapped_citations[k].sourceType
                      = SourceAt(search_results, map_input[k].index - 1).stype
              ELSE /\ mapped_citations[k] = map_input[k]
                   /\ collector_citations[k]
                      = [map_input[k] EXCEPT !.sourceType = "unknown"]

\* Both mappers ran on a list with a reference that has a source (a graph
\* result with structured content) and one that has none.
C5_Witness ==
    /\ BothMapped
    /\ EquivalentInputs
    /\ Len(map_input) = 2
    /\ mapped_citations[1].sourceType = "graph"
    /\ Len(mapped_citations[1].metadata) = 2
    /\ collector_citations[2].sourceType = "unknown"

\* C6: map_citations_to_collector resolves each citation by its rawIndex
\* among the ledger's aggregator indices; for a rawIndex no ledger entry has
\* it returns the citation with sourceType "unknown" and nothing else
\* changed.
C6_CollectorLookupByRawIndex ==
    "map_citations_to_collector" \in done =>
        /\ Len(collector_citations) = Len(map_input)
        /\ \A k \in 1..Len(map_input) :
              IF map_input[k].rawIndex \in LedgerIndices(collector)
              THEN \E e \in 1..Len(get_all_results(collector)) :
                      /\ get_all_results(collector)[e].agg_idx = map_input[k].rawIndex
                      /\ collector_citations[k].sourceType
                         = get_all_results(collector)[e].stype
                      /\ SourceOid(collector_citations[k])
                         = get_all_results(collector)[e].obj.oid
              ELSE collector_citations[k]
                   = [map_input[k] EXCEPT !.sourceType = "unknown"]

\* A citation whose rawIndex is absent from the ledger while its index is
\* present, next to one whose rawIndex is present and differs from its index.
C6_Witness ==
    /\ "map_citations_to_collector" \in done
    /\ Len(map_input) = 2
    /\ map_input[1].rawIndex \notin LedgerIndices(collector)
    /\ map_input[1].index \in LedgerIndices(collector)
    /\ collector_citations[1].sourceType = "unknown"
    /\ map_input[2].rawIndex \in LedgerIndices(collector)
    /\ map_input[2].rawIndex # map_input[2].index
    /\ collector_citations[2].sourceType = "web"

\* C7: map_citations_to_sources reads position index - 1 of the aggregate
\* flattened as chunk, graph, web, contextDoc: in range, the citation gets
\* the category (and the object) at that position; out of range (index < 1
\* or index > total), the citation is returned unchanged.
C7_PositionalLookup ==
    "map_citations_to_sources" \in done =>
        /\ Len(mapped_citations) = Len(map_input)
        /\ \A k \in 1..Len(map_input) :
              LET at == SourceAt(search_results, map_input[k].index - 1)
              IN  IF map_input[k].index \in 1..TotalSources(search_results)
                  THEN /\ mapped_citations[k].sourceType = at.stype
                       /\ SourceOid(mapped_citations[k]) = at.oid
                       /\ mapped_citations[k].index = map_input[k].index
                       /\ mapped_citations[k].rawIndex = map_input[k].rawIndex
                       /\ mapped_citations[k].startIndex = map_input[k].startIndex
                       /\ mapped_citations[k].endIndex = map_input[k].endIndex
                  ELSE /\ mapped_citations[k] = map_input[k]
                       /\ mapped_citations[k].sourceType = NoneStr

\* An index below 1 next to an index that lands on a context document after
\* the other three categories.
C7_Witness ==
    /\ "map_citations_to_sources" \in done
    /\ Len(map_input) = 2
    /\ map_input[1].index = 0
    /\ mapped_citations[1] = map_input[1]
    /\ map_input[2].index = 3
    /\ mapped_citations[2].sourceType = "contextDoc"
    /\ TotalSources(search_results) = 3

\* C8: extract_citations returns one record per "[<digits>]" substring, in
\* left-to-right order, carrying that substring's offsets and number; both
\* orchestrators return one citation per such substring in the same order,
\* with or without a source.
C8_OneCitationPerBracket ==
    LET spans == SpanSeq(raw_text)
    IN  /\ "extract_citations" \in done =>
              /\ Len(raw_citations) = Len(spans)
              /\ \A k \in 1..Len(raw_citations) :
                    /\ <<raw_citations[k].startIndex, raw_citations[k].endIndex>>
                       = spans[k]
                    /\ raw_citations[k].index = SpanNumber(raw_text, spans[k])
        /\ (\/ done = {"finalize_citations_in_message"}
            \/ done = {"finalize_citations_with_collector"}) =>
              /\ Len(final_citations) = Len(spans)
              /\ \A k \in 1..Len(final_citations) :
                    final_citations[k].rawIndex = SpanNumber(raw_text, spans[k])

\* An orchestrator returned two citations for a text that also holds
\* characters outside its brackets: the first with a source, the second
\* without.
C8_Witness ==
    /\ done = {"finalize_citations_with_collector"}
    /\ Len(final_citations) = 2
    /\ Len(raw_text) > 6
    /\ final_citations[1].sourceType = "web"
    /\ final_citations[2].sourceType = "unknown"

\* The offset after the whitespace that starts at offset s.
AfterSpace(t, s) ==
    CHOOSE j \in s..Len(t) :
        /\ j = Len(t) \/ ~IsSpace(At(t, j))
        /\ \A i \in s..(j - 1) : IsSpace(At(t, i))

\* Snippet start as documented: after the nearest terminator before the
\* match and the whitespace that follows it; 0 without such a terminator.
DocumentedSnippetStart(t, start) ==
    LET before == {i \in 0..(start - 1) : At(t, i) \in sentence_enders}
    IN  IF before = {} THEN 0
        ELSE AfterSpace(t, (CHOOSE i \in before : \A o \in before : o <= i) + 1)

\* Snippet end as documented: after the nearest terminator at or after the
\* match end and the whitespace that follows it; len(text) without one.
DocumentedSnippetEnd(t, end) ==
    LET after == {i \in end..(Len(t) - 1) : At(t, i) \in sentence_enders}
    IN  IF after = {} THEN Len(t)
        ELSE AfterSpace(t, (CHOOSE i \in after : \A o \in after : i <= o) + 1)

\* C9: every scanned record's snippet starts after the nearest terminator
\* preceding the match (and following whitespace), or at 0 without one, and
\* ends after the nearest terminator at or after the match end (and
\* following whitespace), or at the text end; "A. [1] B." gives "[1] B.".
C9_SnippetSpan ==
    "extract_citations" \in done =>
        /\ \A k \in 1..Len(raw_citations) :
              /\ raw_citations[k].snippetStartIndex
                 = DocumentedSnippetStart(raw_text, raw_citations[k].startIndex)
              /\ raw_citations[k].snippetEndIndex
                 = DocumentedSnippetEnd(raw_text, raw_citations[k].endIndex)
        /\ raw_text = SnippetText =>
              Slice(raw_text, raw_citations[1].snippetStartIndex,
                    raw_citations[1].snippetEndIndex)
              = <<"[", "1", "]", " ", "B", ".">>

\* C10: in the aggregator-based pipeline every returned citation's
\* startIndex/endIndex delimit its bracket in the relabeled text.
C10_OffsetsInRelabeledText ==
    done = {"finalize_citations_with_collector"} =>
        \A k \in 1..Len(final_citations) :
            Slice(relabeled_text, final_citations[k].startIndex,
                  final_citations[k].endIndex)
            = Bracket(final_citations[k].index)

AggregatorPipeline == done = {"finalize_citations_with_collector"}

\* C11: in the aggregator-based pipeline each citation's new index is the
\* 1-based rank of its raw bracket number among the distinct raw numbers of
\* the text in ascending order: the indices are exactly 1..U, a smaller raw
\* number has a smaller index, and every bracket of the relabeled text shows
\* the new index of the raw number it replaced.
C11_AscendingRank ==
    AggregatorPipeline =>
        LET spans == SpanSeq(raw_text)
            n == Len(final_citations)
            nums == {SpanNumber(raw_text, spans[k]) : k \in 1..Len(spans)}
        IN  /\ n = Len(spans)
            /\ \A k \in 1..n :
                  /\ final_citations[k].rawIndex = SpanNumber(raw_text, spans[k])
                  /\ final_citations[k].index
                     = Cardinality({q \in nums : q <= final_citations[k].rawIndex})
            /\ {final_citations[k].index : k \in 1..n} = 1..Cardinality(nums)
            /\ \A a, b \in 1..n :
                  final_citations[a].rawIndex < final_citations[b].rawIndex
                  => final_citations[a].index < final_citations[b].index
            /\ relabeled_text = RelabelFrom(raw_text, spans, final_citations, 1, 0)

\* A larger raw number appears before a smaller one: the first bracket gets
\* index 2 and the second index 1.
C11_Witness ==
    /\ AggregatorPipeline
    /\ Len(final_citations) >= 2
    /\ final_citations[1].rawIndex > final_citations[2].rawIndex
    /\ final_citations[1].index = 2
    /\ final_citations[2].index = 1
    /\ relabeled_text # raw_text

Reordered == "reorder_collector_to_match_final_brackets" \in done

\* C12: after reorder_collector_to_match_final_brackets on the
\* aggregator-based pipeline's final citations, for every final bracket
\* number b whose raw number is an aggregator index of the ledger, position
\* b-1 (0-based) of the collector's order holds the ledger item with that
\* aggregator index.
C12_PositionHoldsUsedItem ==
    Reordered =>
        \A k \in 1..Len(final_citations) :
            \A j \in 1..Len(ledger_before) :
                ledger_before[j].agg_idx = final_citations[k].rawIndex =>
                    /\ final_citations[k].index <= Len(get_all_results(collector))
                    /\ get_all_results(collector)[final_citations[k].index]
                       = ledger_before[j]

Streamed == "format_search_results_for_stream" \in done

\* The stream markers in their fixed order, with the category each one
\* renders and the method that reduces an item to its dictionary.
StreamCategories ==
    << [marker |-> "chunk_search", method |-> "as_dict",
        items |-> ItemsOf(search_results.chunk_search_results)],
       [marker |-> "graph_search", method |-> "dict",
        items |-> ItemsOf(search_results.graph_search_results)],
       [marker |-> "web_search", method |-> "to_dict",
        items |-> ItemsOf(search_results.web_search_results)],
       [marker |-> "content", method |-> "to_dict",
        items |-> ItemsOf(search_results.context_document_results)] >>

\* C13: format_search_results_for_stream emits for each non-empty category,
\* and for no other, a start tag, the JSON array of the category's items and
\* the matching end tag, in the order chunk_search, graph_search, web_search,
\* content; only chunk results give exactly one chunk_search triple, and no
\* results give the empty string.
C13_StreamTagPairs ==
    Streamed =>
        LET cats == StreamCategories
            nonempty == {c \in 1..4 : Len(cats[c].items) > 0}
        IN  /\ Len(context) = 3 * Cardinality(nonempty)
            /\ \A c \in nonempty :
                  LET p == 3 * Cardinality({d \in nonempty : d < c})
                  IN  /\ context[p + 1].kind = "start"
                      /\ context[p + 1].marker = cats[c].marker
                      /\ context[p + 2].kind = "json"
                      /\ Len(context[p + 2].items) = Len(cats[c].items)
                      /\ \A i \in 1..Len(cats[c].items) :
                            context[p + 2].items[i]
                            = [method |-> cats[c].method,
                               oid |-> cats[c].items[i].oid]
                      /\ context[p + 3].kind = "end"
                      /\ context[p + 3].marker = cats[c].marker
            /\ nonempty = {1} =>
                  /\ Len(context) = 3
                  /\ context[1] = [kind |-> "start", marker |-> "chunk_search",
                                   items |-> <<>>]
                  /\ context[3] = [kind |-> "end", marker |-> "chunk_search",
                                   items |-> <<>>]
            /\ nonempty = {} => context = <<>>

\* A rendering that skipped an empty list (not None) between two rendered
\* categories.
C13_Witness ==
    /\ Streamed
    /\ Len(context) = 9
    /\ context[1].marker = "chunk_search"
    /\ context[4].marker = "graph_search"
    /\ context[7].marker = "content"
    /\ ~search_results.web_search_results.is_none

Prompted == "format_search_results_for_llm" \in done

\* The "Source [X]:" lines of the rendered prompt, in order.
SourceHeaders ==
    LET IsSource(l) == l.kind = "source"
    IN  SelectSeq(lines, IsSource)

\* The header documented for an item: the aggregator index of the ledger
\* entry holding that object, or "???" when no entry holds it.
DocumentedHeader(item) ==
    LET ledger == get_all_results(collector)
        holding == {k \in 1..Len(ledger) : ledger[k].obj.oid = item.oid}
    IN  <<"Source [">>
        \o (IF holding = {} THEN <<"?", "?", "?">>
            ELSE StrOf(ledger[CHOOSE k \in holding : \A o \in holding : k <= o].agg_idx))
        \o <<"]:">>

InputObjects == 1..Len(map_input)

\* C15: each mapping stage copies: for every input citation, found or not,
\* the element map_citations_to_sources and map_citations_to_collector
\* return is an object other than every input citation object, and the
\* caller's citation list is as it was before the call.
C15_MappersCopy ==
    /\ "map_citations_to_sources" \in done =>
          /\ Len(mapped_objects) = Len(map_input)
          /\ \A k \in 1..Len(mapped_objects) : mapped_objects[k] \notin InputObjects
    /\ "map_citations_to_collector" \in done =>
          /\ Len(collector_objects) = Len(map_input)
          /\ \A k \in 1..Len(collector_objects) :
                collector_objects[k] \notin InputObjects
    /\ ({"map_citations_to_sources", "map_citations_to_collector"} \cap done # {})
          => map_input = CurrentCitations

\* The offsets of a scanned record are ordered and inside the text t.
OffsetsOrdered(cit, t) ==
    /\ 0 <= cit.snippetStartIndex
    /\ cit.snippetStartIndex <= cit.startIndex
    /\ cit.startIndex < cit.endIndex
    /\ cit.endIndex <= cit.snippetEndIndex
    /\ cit.snippetEndIndex <= Len(t)

\* C16: every record extract_citations returns, on the raw text and on a
\* relabeled text, satisfies 0 <= snippetStartIndex <= startIndex < endIndex
\* <= snippetEndIndex <= len(text).
C16_SnippetContainsBracket ==
    /\ "extract_citations" \in done =>
          \A k \in 1..Len(raw_citations) : OffsetsOrdered(raw_citations[k], raw_text)
    /\ "rescan" \in done =>
          \A k \in 1..Len(rescanned) : OffsetsOrdered(rescanned[k], relabeled_text)

\* A record whose snippet starts right after a terminator and the whitespace
\* behind it, at the bracket itself, and ends before the end of the text;
\* and a record whose snippet is wider than its bracket on both sides.
C16_Witness ==
    /\ "extract_citations" \in done
    /\ \E k \in 1..Len(raw_citations) :
          /\ 0 < raw_citations[k].snippetStartIndex
          /\ raw_citations[k].snippetStartIndex = raw_citations[k].startIndex
          /\ raw_citations[k].snippetEndIndex < Len(raw_text)
    /\ \E k \in 1..Len(raw_citations) :
          /\ raw_citations[k].snippetStartIndex < raw_citations[k].startIndex
          /\ raw_citations[k].endIndex < raw_citations[k].snippetEndIndex

RenumberedAgain == "renumber_again" \in done

\* C17: scanning and renumbering the text reassign_citations_in_order
\* produced returns that text unchanged, with every citation's index equal to
\* its rawIndex and to its index of the first run, at the offsets of the
\* first run.
C17_RenumberIdempotent ==
    RenumberedAgain =>
        /\ again_text = relabeled_text
        /\ Len(again_citations) = Len(new_citations)
        /\ \A k \in 1..Len(again_citations) :
              /\ k <= Len(new_citations)
              /\ again_citations[k].index = again_citations[k].rawIndex
              /\ again_citations[k].index = new_citations[k].index
              /\ again_citations[k].startIndex = new_citations[k].startIndex
              /\ again_citations[k].endIndex = new_citations[k].endIndex
              /\ again_citations[k].snippetStartIndex
                 = new_citations[k].snippetStartIndex
              /\ again_citations[k].snippetEndIndex
                 = new_citations[k].snippetEndIndex

\* A second run after a first run that renumbered a repeated bracket and
\* changed the length of the text.
C17_Witness ==
    /\ RenumberedAgain
    /\ Len(again_citations) >= 2
    /\ Len(relabeled_text) # Len(raw_text)
    /\ new_citations[1].rawIndex # new_citations[1].index
    /\ again_citations[2].startIndex # raw_citations[2].startIndex

====
